---- MODULE Spec2Model ----
(***************************************************************************)
(* Model of the CSRF protection core (src/src/core.rs): the three          *)
(* CsrfProtection backends (HMAC, AES-GCM, ChaCha20-Poly1305), their wire  *)
(* formats, generate_token_pair and verify_token_pair.                     *)
(*                                                                         *)
(* Byte strings are sequences over 0..255 with the lengths of the source.  *)
(* An i64 is four 16-bit limbs, least significant first, in two's          *)
(* complement; mem::transmute lays it out as eight bytes of a little-      *)
(* endian target. The primitives of the crypto crates (HMAC-SHA-256, the   *)
(* two AEAD ciphers) are keyed checksums and a keyed XOR stream: they keep *)
(* what the callers rely on (determinism, dependence on key, nonce and     *)
(* every message byte), not the strength of the real primitives.           *)
(*                                                                         *)
(* Spec is a session: pairs issued by generate_token_pair, held as base64  *)
(* text and presented in requests as time passes. SpecCodec is             *)
(* generate_token / generate_cookie called directly, over the whole range  *)
(* of ttl_seconds, and parse_token / parse_cookie on what they return.     *)
(* SpecWire is parse_token / parse_cookie on input from the network:       *)
(* values with one bit inverted, of every length, and parsed twice.        *)
(***************************************************************************)
EXTENDS Integers, Sequences, FiniteSets, TLC

\* ------------------------------------------------------------------ bounds

\* Seeds of the random source: a call's draws are a function of its seed.
MaxSeed == 1
\* Keys an instance may be constructed with: 0..MaxKey.
MaxKey == 1
\* The clock runs 0..MaxClock seconds.
MaxClock == 1
\* Positive ttl_seconds values 1..MaxTtl (besides -1, 0, i64::MIN and i64::MAX).
MaxTtl == 1
\* Token pairs a run issues.
MaxPairs == 2
\* Callers that share one instance.
MaxCallers == 2
\* Nested calls the stack of a thread holds.
MaxStack == 64

\* --------------------------------------------------------- sizes (source)

\* the secret value shared by a token and its cookie: [u8; 64]
SECRET_LEN == 64
\* key material: [u8; 32]
KEY_LEN == 32

\* ------------------------------------------------------------------ bytes

Byte == 0..255

\* s[from..from+n-1], the source's `for i in 0..n { dst[i] = src[i + off] }`
Slice(s, off, n) == SubSeq(s, off + 1, off + n)

\* .to_vec(): the elements as a sequence value of their own
to_vec(s) == s \o <<>>

\* bit k of byte a, for w = 2^k
Bit(a, w) == (a \div w) % 2

\* a ^ b on bytes, bit by bit
XorBits(a, b) ==
      ((Bit(a, 1) + Bit(b, 1)) % 2)
    + ((Bit(a, 2) + Bit(b, 2)) % 2) * 2
    + ((Bit(a, 4) + Bit(b, 4)) % 2) * 4
    + ((Bit(a, 8) + Bit(b, 8)) % 2) * 8
    + ((Bit(a, 16) + Bit(b, 16)) % 2) * 16
    + ((Bit(a, 32) + Bit(b, 32)) % 2) * 32
    + ((Bit(a, 64) + Bit(b, 64)) % 2) * 64
    + ((Bit(a, 128) + Bit(b, 128)) % 2) * 128

\* a ^ b, tabulated once
XorTable == [a \in Byte |-> [b \in Byte |-> XorBits(a, b)]]
Xor(a, b) == XorTable[a][b]

\* ------------------------------------------------------------------ Result

InternalError == "InternalError"
ValidationFailure == "ValidationFailure"
\* an arithmetic-overflow panic of a build with overflow checks
Panic == "panic"

Ok(v) == [ok |-> TRUE, v |-> v]
Err(e) == [ok |-> FALSE, err |-> e]

IsOk(r) == r.ok
IsErr(r, e) == (~r.ok) /\ r.err = e

\* -------------------------------------------------------------------- i64

\* one limb holds two bytes
LIMB == 256 * 256
I64Zero == <<0, 0, 0, 0>>
I64FromNat(n) == <<n % LIMB, (n \div LIMB) % LIMB, 0, 0>>
I64MinusOne == <<LIMB - 1, LIMB - 1, LIMB - 1, LIMB - 1>>
I64Max == <<LIMB - 1, LIMB - 1, LIMB - 1, (LIMB \div 2) - 1>>
I64Min == <<0, 0, 0, LIMB \div 2>>

I64IsNeg(x) == x[4] >= LIMB \div 2

\* two's complement addition modulo 2^64
WrappingAdd(a, b) ==
    LET s1 == a[1] + b[1]
        s2 == a[2] + b[2] + s1 \div LIMB
        s3 == a[3] + b[3] + s2 \div LIMB
        s4 == a[4] + b[4] + s3 \div LIMB
    IN  <<s1 % LIMB, s2 % LIMB, s3 % LIMB, s4 % LIMB>>

AddOverflows(a, b) ==
    /\ I64IsNeg(a) = I64IsNeg(b)
    /\ I64IsNeg(WrappingAdd(a, b)) # I64IsNeg(a)

\* mutant: the comparison of u64, which takes a negative value for a large one
I64GtUnsigned(a, b) ==
    \/ a[4] > b[4]
    \/ a[4] = b[4] /\ a[3] > b[3]
    \/ a[4] = b[4] /\ a[3] = b[3] /\ a[2] > b[2]
    \/ a[4] = b[4] /\ a[3] = b[3] /\ a[2] = b[2] /\ a[1] > b[1]

\* signed a > b
I64Gt(a, b) ==
    IF I64IsNeg(a) # I64IsNeg(b) THEN I64IsNeg(b)
    ELSE \/ a[4] > b[4]
         \/ a[4] = b[4] /\ a[3] > b[3]
         \/ a[4] = b[4] /\ a[3] = b[3] /\ a[2] > b[2]
         \/ a[4] = b[4] /\ a[3] = b[3] /\ a[2] = b[2] /\ a[1] > b[1]

\* mem::transmute::<i64, [u8; 8]> on a little-endian target
TransmuteToBytes(x) ==
    [i \in 1..8 |->
        IF i % 2 = 1 THEN x[(i + 1) \div 2] % 256 ELSE x[i \div 2] \div 256]

\* mem::transmute::<[u8; 8], i64> on a little-endian target
TransmuteToI64(b) ==
    [k \in 1..4 |-> b[2 * k - 1] + 256 * b[2 * k]]

\* ----------------------------------------------------- crypto primitives

\* modulus of the checksum that stands for a digest (a prime)
DigestModulus == 65536 - 19199

\* the polynomial checksum of s[lo..hi] and 31^(hi-lo+1), both modulo
\* DigestModulus
RECURSIVE Fold(_, _, _)
Fold(s, lo, hi) ==
    IF lo = hi THEN <<s[lo] + 1, 31>>
    ELSE LET mid == (lo + hi) \div 2
             l == Fold(s, lo, mid)
             r == Fold(s, mid + 1, hi)
         IN  <<(l[1] * r[2] + r[1]) % DigestModulus, (l[2] * r[2]) % DigestModulus>>

\* absorb the bytes of s, in order, into the running digest acc:
\* acc <- acc * 31 + byte + 1 for each byte
Absorb(acc, s) ==
    IF Len(s) = 0 THEN acc
    ELSE LET f == Fold(s, 1, Len(s))
         IN  (acc * f[2] + f[1]) % DigestModulus

\* the n output bytes of a digest; the first two determine acc
DigestCode(acc, n) ==
    [j \in 1..n |->
        IF j = 1 THEN acc % 256
        ELSE IF j = 2 THEN acc \div 256
        ELSE (acc * j + j) % 256]

\* mutant: the MAC does not depend on the key
Hmac_unkeyed(hmac_key) == Absorb(1, <<>>)

\* Hmac::new(Sha256::new(), &self.hmac_key): a MAC keyed with hmac_key
Hmac(hmac_key) == Absorb(1, hmac_key)
\* hmac.input(data)
MacInput(mac, data) == Absorb(mac, data)
\* hmac.result().code()
MacResult(mac) == DigestCode(mac, 32)

\* AesGcm::new(KeySize256, &self.aead_key, nonce, &[])
AesGcmAead(aead_key, nonce) == Absorb(Absorb(2, aead_key), nonce)
\* ChaCha20Poly1305::new(&self.aead_key, nonce, &[])
ChaChaAead(aead_key, nonce) == Absorb(Absorb(3, aead_key), nonce)

\* the cipher's key stream byte at position i
KeyStream(aead, i) == (aead * i + 7 * i + aead \div 256) % 256

\* aead.encrypt(&plaintext, &mut ciphertext, &mut tag)
AeadEncrypt(aead, plaintext) ==
    LET ciphertext == to_vec([i \in 1..Len(plaintext) |-> Xor(plaintext[i], KeyStream(aead, i))])
    IN  [ciphertext |-> ciphertext,
         tag |-> DigestCode(Absorb(aead, ciphertext), 16)]

\* mutant: the tag is not compared
AeadDecrypt_unauthenticated(aead, ciphertext, tag) ==
    [ok |-> TRUE,
     plaintext |-> [i \in 1..Len(ciphertext) |-> Xor(ciphertext[i], KeyStream(aead, i))]]

\* aead.decrypt(&ciphertext, &mut plaintext, &tag): false on a tag mismatch
AeadDecrypt(aead, ciphertext, tag) ==
    IF DigestCode(Absorb(aead, ciphertext), 16) # tag
    THEN [ok |-> FALSE, plaintext |-> [i \in 1..Len(ciphertext) |-> 0]]
    ELSE [ok |-> TRUE,
          plaintext |-> [i \in 1..Len(ciphertext) |-> Xor(ciphertext[i], KeyStream(aead, i))]]

\* ---------------------------------------------------------- random source

\* What SystemRandom yields during one call is rng = [seed, fail]: draw k of
\* the call returns bytes derived from seed, or fails when k is in fail.
RandomFill(seed, k, n) == [i \in 1..n |-> (seed * 101 + k * 53 + i * 17) % 256]

\* CsrfProtection::random_bytes for the k-th draw of a call
random_bytes(rng, k, n) ==
    IF k \in rng.fail THEN Err(InternalError)
    ELSE Ok(RandomFill(rng.seed, k, n))

\* the 64-byte secrets a fresh draw (the first draw of a call) can yield
Secrets == {RandomFill(s, 1, SECRET_LEN) : s \in 0..MaxSeed}

\* 32-byte key material of instance k
KeyOf(k) == [i \in 1..KEY_LEN |-> (48 + ((i - 1) % 8) + 11 * k) % 256]

\* ------------------------------------------------------------ wire values

\* UnencryptedCsrfToken::new / UnencryptedCsrfCookie::new
UnencryptedCsrfToken(token) == [token |-> token]
UnencryptedCsrfCookie(expires, token) == [expires |-> expires, token |-> token]

\* Option<&[u8; 64]>
None == [some |-> FALSE]
Some(v) == [some |-> TRUE, v |-> v]

\* what a generate_* call returns and how many random_bytes calls it made
Generated(result, draws) == [result |-> result, draws |-> draws]

\* what a parse_* call returns, the steps it ran (length check, integrity
\* check, construction of the unencrypted value) and the MAC / AEAD
\* computations it made
Parsed(result, stages, crypto) == [result |-> result, stages |-> stages, crypto |-> crypto]

RejectedOnLength == Parsed(Err(ValidationFailure), <<"length">>, 0)
RejectedOnIntegrity == Parsed(Err(ValidationFailure), <<"length", "integrity">>, 1)
Accepted(v) == Parsed(Ok(v), <<"length", "integrity", "value">>, 1)

\* `time::precise_time_s() as i64 + ttl_seconds`: the sum wraps in a build
\* without overflow checks and panics in a build with them
ExpiresAt(now, ttl_seconds, overflow_checks) ==
    IF AddOverflows(I64FromNat(now), ttl_seconds) /\ overflow_checks
    THEN Err(Panic)
    ELSE Ok(WrappingAdd(I64FromNat(now), ttl_seconds))

\* The builds that differ on this sum: with and without overflow checks
\* when it overflows, and otherwise one (the two agree).
Builds(now, ttl_seconds) ==
    IF AddOverflows(I64FromNat(now), ttl_seconds) THEN BOOLEAN ELSE {FALSE}

\* ------------------------------------------------------------ HMAC backend

HmacGenerateCookie(hmac_key, token_value, ttl_seconds, now, overflow_checks) ==
    LET expires == ExpiresAt(now, ttl_seconds, overflow_checks)
    IN  IF ~expires.ok THEN Generated(Err(Panic), 0)
        ELSE
        LET expires_bytes == TransmuteToBytes(expires.v)
            code == MacResult(MacInput(MacInput(Hmac(hmac_key), token_value), expires_bytes))
            transport == token_value \o expires_bytes \o code
        IN  Generated(Ok(transport), 0)

HmacGenerateToken(hmac_key, token_value) ==
    LET code == MacResult(MacInput(Hmac(hmac_key), token_value))
        transport == token_value \o code
    IN  Generated(Ok(transport), 0)

\* mutant: a longer input is read up to the cookie's length
HmacParseCookie_prefix(hmac_key, cookie) ==
    IF Len(cookie) < 104 THEN RejectedOnLength
    ELSE
    LET cookie_bytes == Slice(cookie, 0, 64)
        expires_bytes == Slice(cookie, 64, 8)
        code == Slice(cookie, 72, 32)
        result == MacResult(MacInput(MacInput(Hmac(hmac_key), cookie_bytes), expires_bytes))
    IN  IF result # code THEN RejectedOnIntegrity
        ELSE Accepted(UnencryptedCsrfCookie(TransmuteToI64(expires_bytes), cookie_bytes))

HmacParseCookie(hmac_key, cookie) ==
    IF Len(cookie) # 104 THEN RejectedOnLength
    ELSE
    LET cookie_bytes == Slice(cookie, 0, 64)
        expires_bytes == Slice(cookie, 64, 8)
        code == Slice(cookie, 72, 32)
        result == MacResult(MacInput(MacInput(Hmac(hmac_key), cookie_bytes), expires_bytes))
    IN  IF result # code THEN RejectedOnIntegrity
        ELSE Accepted(UnencryptedCsrfCookie(TransmuteToI64(expires_bytes), cookie_bytes))

\* mutant: the MAC is computed before the length is looked at
HmacParseToken_eager(hmac_key, token) ==
    LET token_bytes == Slice(token, 0, IF Len(token) < 64 THEN Len(token) ELSE 64)
        result == MacResult(MacInput(Hmac(hmac_key), token_bytes))
    IN  IF Len(token) # 96 THEN Parsed(Err(ValidationFailure), <<"integrity", "length">>, 1)
        ELSE IF result # Slice(token, 64, 32) THEN RejectedOnIntegrity
        ELSE Accepted(UnencryptedCsrfToken(token_bytes))

HmacParseToken(hmac_key, token) ==
    IF Len(token) # 96 THEN RejectedOnLength
    ELSE
    LET token_bytes == Slice(token, 0, 64)
        code == Slice(token, 64, 32)
        result == MacResult(MacInput(Hmac(hmac_key), token_bytes))
    IN  IF result # code THEN RejectedOnIntegrity
        ELSE Accepted(UnencryptedCsrfToken(token_bytes))

\* --------------------------------------------------------- AES-GCM backend

AesGcmGenerateCookie(aead_key, token_value, ttl_seconds, now, overflow_checks, rng, base) ==
    LET expires == ExpiresAt(now, ttl_seconds, overflow_checks)
        nonce == random_bytes(rng, base + 1, 12)
        padding == random_bytes(rng, base + 2, 16)
    IN  IF ~expires.ok THEN Generated(Err(Panic), 0)
        ELSE IF ~nonce.ok THEN Generated(Err(nonce.err), 1)
        ELSE IF ~padding.ok THEN Generated(Err(padding.err), 2)
        ELSE
        LET expires_bytes == TransmuteToBytes(expires.v)
            plaintext == padding.v \o expires_bytes \o token_value
            enc == AeadEncrypt(AesGcmAead(aead_key, nonce.v), plaintext)
            transport == enc.ciphertext \o nonce.v \o enc.tag
        IN  Generated(Ok(transport), 2)

AesGcmGenerateToken(aead_key, token_value, rng, base) ==
    LET nonce == random_bytes(rng, base + 1, 12)
        padding == random_bytes(rng, base + 2, 16)
    IN  IF ~nonce.ok THEN Generated(Err(nonce.err), 1)
        ELSE IF ~padding.ok THEN Generated(Err(padding.err), 2)
        ELSE
        LET plaintext == padding.v \o token_value
            enc == AeadEncrypt(AesGcmAead(aead_key, nonce.v), plaintext)
            transport == enc.ciphertext \o nonce.v \o enc.tag
        IN  Generated(Ok(transport), 2)

AesGcmParseCookie(aead_key, cookie) ==
    IF Len(cookie) # 116 THEN RejectedOnLength
    ELSE
    LET ciphertext == Slice(cookie, 0, 88)
        nonce == Slice(cookie, 88, 12)
        tag == Slice(cookie, 100, 16)
        dec == AeadDecrypt(AesGcmAead(aead_key, nonce), ciphertext, tag)
    IN  IF ~dec.ok THEN RejectedOnIntegrity
        ELSE
        LET expires_bytes == Slice(dec.plaintext, 16, 8)
            token == Slice(dec.plaintext, 24, 64)
        IN  Accepted(UnencryptedCsrfCookie(TransmuteToI64(expires_bytes), token))

\* mutant: the padding is returned as the start of the secret
AesGcmParseToken_unskipped(aead_key, token) ==
    IF Len(token) # 108 THEN RejectedOnLength
    ELSE
    LET ciphertext == Slice(token, 0, 80)
        nonce == Slice(token, 80, 12)
        tag == Slice(token, 92, 16)
        dec == AeadDecrypt(AesGcmAead(aead_key, nonce), ciphertext, tag)
    IN  IF ~dec.ok THEN RejectedOnIntegrity
        ELSE Accepted(UnencryptedCsrfToken(Slice(dec.plaintext, 0, 64)))

AesGcmParseToken(aead_key, token) ==
    IF Len(token) # 108 THEN RejectedOnLength
    ELSE
    LET ciphertext == Slice(token, 0, 80)
        nonce == Slice(token, 80, 12)
        tag == Slice(token, 92, 16)
        dec == AeadDecrypt(AesGcmAead(aead_key, nonce), ciphertext, tag)
    IN  IF ~dec.ok THEN RejectedOnIntegrity
        ELSE Accepted(UnencryptedCsrfToken(Slice(dec.plaintext, 16, 64)))

\* ----------------------------------------------- ChaCha20-Poly1305 backend

ChaChaGenerateCookie(aead_key, token_value, ttl_seconds, now, overflow_checks, rng, base) ==
    LET expires == ExpiresAt(now, ttl_seconds, overflow_checks)
        nonce == random_bytes(rng, base + 1, 8)
        padding == random_bytes(rng, base + 2, 16)
    IN  IF ~expires.ok THEN Generated(Err(Panic), 0)
        ELSE IF ~nonce.ok THEN Generated(Err(nonce.err), 1)
        ELSE IF ~padding.ok THEN Generated(Err(padding.err), 2)
        ELSE
        LET expires_bytes == TransmuteToBytes(expires.v)
            plaintext == padding.v \o expires_bytes \o token_value
            enc == AeadEncrypt(ChaChaAead(aead_key, nonce.v), plaintext)
            transport == enc.ciphertext \o nonce.v \o enc.tag
        IN  Generated(Ok(transport), 2)

ChaChaGenerateToken(aead_key, token_value, rng, base) ==
    LET nonce == random_bytes(rng, base + 1, 8)
        padding == random_bytes(rng, base + 2, 16)
    IN  IF ~nonce.ok THEN Generated(Err(nonce.err), 1)
        ELSE IF ~padding.ok THEN Generated(Err(padding.err), 2)
        ELSE
        LET plaintext == padding.v \o token_value
            enc == AeadEncrypt(ChaChaAead(aead_key, nonce.v), plaintext)
            transport == enc.ciphertext \o nonce.v \o enc.tag
        IN  Generated(Ok(transport), 2)

ChaChaParseCookie(aead_key, cookie) ==
    IF Len(cookie) # 112 THEN RejectedOnLength
    ELSE
    LET ciphertext == Slice(cookie, 0, 88)
        nonce == Slice(cookie, 88, 8)
        tag == Slice(cookie, 96, 16)
        dec == AeadDecrypt(ChaChaAead(aead_key, nonce), ciphertext, tag)
    IN  IF ~dec.ok THEN RejectedOnIntegrity
        ELSE
        LET expires_bytes == Slice(dec.plaintext, 16, 8)
            token == Slice(dec.plaintext, 24, 64)
        IN  Accepted(UnencryptedCsrfCookie(TransmuteToI64(expires_bytes), token))

ChaChaParseToken(aead_key, token) ==
    IF Len(token) # 104 THEN RejectedOnLength
    ELSE
    LET ciphertext == Slice(token, 0, 80)
        nonce == Slice(token, 80, 8)
        tag == Slice(token, 88, 16)
        dec == AeadDecrypt(ChaChaAead(aead_key, nonce), ciphertext, tag)
    IN  IF ~dec.ok THEN RejectedOnIntegrity
        ELSE Accepted(UnencryptedCsrfToken(Slice(dec.plaintext, 16, 64)))

\* ------------------------------------------------- trait CsrfProtection

Backends == {"hmac", "aesgcm", "chacha"}

\* self: [backend, key], as from_key builds it
generate_cookie(self, token_value, ttl_seconds, now, overflow_checks, rng, base) ==
    CASE self.backend = "hmac" ->
            HmacGenerateCookie(self.key, token_value, ttl_seconds, now, overflow_checks)
      [] self.backend = "aesgcm" ->
            AesGcmGenerateCookie(self.key, token_value, ttl_seconds, now, overflow_checks, rng, base)
      [] self.backend = "chacha" ->
            ChaChaGenerateCookie(self.key, token_value, ttl_seconds, now, overflow_checks, rng, base)

generate_token(self, token_value, rng, base) ==
    CASE self.backend = "hmac" -> HmacGenerateToken(self.key, token_value)
      [] self.backend = "aesgcm" -> AesGcmGenerateToken(self.key, token_value, rng, base)
      [] self.backend = "chacha" -> ChaChaGenerateToken(self.key, token_value, rng, base)

parse_cookie(self, cookie) ==
    CASE self.backend = "hmac" -> HmacParseCookie(self.key, cookie)
      [] self.backend = "aesgcm" -> AesGcmParseCookie(self.key, cookie)
      [] self.backend = "chacha" -> ChaChaParseCookie(self.key, cookie)

parse_token(self, token) ==
    CASE self.backend = "hmac" -> HmacParseToken(self.key, token)
      [] self.backend = "aesgcm" -> AesGcmParseToken(self.key, token)
      [] self.backend = "chacha" -> ChaChaParseToken(self.key, token)

\* mutant: expires >= now
verify_token_pair_inclusive(token, cookie, now) ==
    LET tokens_match == token.token = cookie.token
        not_expired == ~I64Gt(I64FromNat(now), cookie.expires)
    IN  tokens_match /\ not_expired

\* mutant: the secrets are not compared
verify_token_pair_unpaired(token, cookie, now) ==
    I64Gt(cookie.expires, I64FromNat(now))

\* mutant: the comparison with the clock is turned around
verify_token_pair_reversed(token, cookie, now) ==
    LET tokens_match == token.token = cookie.token
        not_expired == I64Gt(I64FromNat(now), cookie.expires)
    IN  tokens_match /\ not_expired

verify_token_pair(token, cookie, now) ==
    LET tokens_match == token.token = cookie.token
        not_expired == I64Gt(cookie.expires, I64FromNat(now))
    IN  tokens_match /\ not_expired

\* mutant: a fresh secret is drawn even when a previous one is given
generate_token_pair_redrawn(self, previous_token_value, ttl_seconds, now, overflow_checks, rng) ==
    LET token == random_bytes(rng, 1, SECRET_LEN)
    IN  IF ~token.ok THEN [result |-> Err(token.err), draws |-> 1, calls |-> 0]
        ELSE
        LET t == generate_token(self, token.v, rng, 1)
            c == generate_cookie(self, token.v, ttl_seconds, now, overflow_checks,
                                 rng, 1 + t.draws)
            draws == 1 + t.draws + c.draws
        IN  IF IsErr(c.result, Panic)
            THEN [result |-> Err(Panic), draws |-> draws, calls |-> 2]
            ELSE IF t.result.ok /\ c.result.ok
            THEN [result |-> Ok([token |-> t.result.v, cookie |-> c.result.v]),
                  draws |-> draws, calls |-> 2]
            ELSE [result |-> Err(ValidationFailure), draws |-> draws, calls |-> 2]

\* mutant: the error of the half that failed is returned as it is
generate_token_pair_propagating(self, previous_token_value, ttl_seconds, now, overflow_checks, rng) ==
    LET token == IF previous_token_value.some THEN Ok(previous_token_value.v)
                 ELSE random_bytes(rng, 1, SECRET_LEN)
        base == IF previous_token_value.some THEN 0 ELSE 1
    IN  IF ~token.ok
        THEN [result |-> Err(token.err), draws |-> base, calls |-> 0,
              token |-> Err("not called"), cookie |-> Err("not called")]
        ELSE
        LET t == generate_token(self, token.v, rng, base)
            c == generate_cookie(self, token.v, ttl_seconds, now, overflow_checks,
                                 rng, base + t.draws)
            draws == base + t.draws + c.draws
        IN  [result |-> IF IsErr(c.result, Panic) THEN Err(Panic)
                        ELSE IF ~t.result.ok THEN t.result
                        ELSE IF ~c.result.ok THEN c.result
                        ELSE Ok([token |-> t.result.v, cookie |-> c.result.v]),
             draws |-> draws, calls |-> 2, token |-> t.result, cookie |-> c.result]

\* the result, the number of random_bytes calls made, the number of
\* generate_* calls made and what generate_token and generate_cookie returned
generate_token_pair(self, previous_token_value, ttl_seconds, now, overflow_checks, rng) ==
    LET token == IF previous_token_value.some THEN Ok(previous_token_value.v)
                 ELSE random_bytes(rng, 1, SECRET_LEN)
        base == IF previous_token_value.some THEN 0 ELSE 1
    IN  IF ~token.ok
        THEN [result |-> Err(token.err), draws |-> base, calls |-> 0,
              token |-> Err("not called"), cookie |-> Err("not called")]
        ELSE
        LET t == generate_token(self, token.v, rng, base)
            c == generate_cookie(self, token.v, ttl_seconds, now, overflow_checks,
                                 rng, base + t.draws)
            draws == base + t.draws + c.draws
        IN  [result |-> IF IsErr(c.result, Panic) THEN Err(Panic)
                        ELSE IF t.result.ok /\ c.result.ok
                        THEN Ok([token |-> t.result.v, cookie |-> c.result.v])
                        ELSE Err(ValidationFailure),
             draws |-> draws, calls |-> 2, token |-> t.result, cookie |-> c.result]

\* ----------------------------------------------------------------- base64

\* the padding character '='
B64Pad == 64

\* BASE64.encode(&self.bytes): characters are alphabet positions 0..63
b64_string(bytes) ==
    LET n == Len(bytes)
        at(k) == IF k <= n THEN bytes[k] ELSE 0
    IN  to_vec([p \in 1..(4 * ((n + 2) \div 3)) |->
            LET g == (p - 1) \div 4
                r == (p - 1) % 4
                b0 == at(3 * g + 1)
                b1 == at(3 * g + 2)
                b2 == at(3 * g + 3)
            IN  CASE r = 0 -> b0 \div 4
                  [] r = 1 -> (b0 % 4) * 16 + (b1 \div 16)
                  [] r = 2 -> IF 3 * g + 2 > n THEN B64Pad ELSE (b1 % 16) * 4 + (b2 \div 64)
                  [] r = 3 -> IF 3 * g + 3 > n THEN B64Pad ELSE b2 % 64])

\* mutant: the padding is not taken off the decoded length
b64_decode_unpadded(text) ==
    LET m == Len(text)
        sextet(p) == IF text[p] = B64Pad THEN 0 ELSE text[p]
    IN  IF m % 4 # 0 THEN Err("DecodeError")
        ELSE Ok(to_vec([k \in 1..(3 * (m \div 4)) |->
            LET g == (k - 1) \div 3
                r == (k - 1) % 3
                c0 == sextet(4 * g + 1)
                c1 == sextet(4 * g + 2)
                c2 == sextet(4 * g + 3)
                c3 == sextet(4 * g + 4)
            IN  CASE r = 0 -> c0 * 4 + (c1 \div 16)
                  [] r = 1 -> (c1 % 16) * 16 + (c2 \div 4)
                  [] r = 2 -> (c2 % 4) * 64 + c3]))

\* BASE64.decode(text): an error unless text is canonical padded base64
b64_decode(text) ==
    LET m == Len(text)
        pad == IF m >= 2 /\ text[m] = B64Pad
               THEN (IF text[m - 1] = B64Pad THEN 2 ELSE 1)
               ELSE 0
        n == 3 * (m \div 4) - pad
        sextet(p) == IF text[p] = B64Pad THEN 0 ELSE text[p]
        canonical ==
            /\ m % 4 = 0
            /\ \A p \in 1..(m - pad) : text[p] # B64Pad
            /\ pad = 1 => text[m - 1] % 4 = 0
            /\ pad = 2 => text[m - 2] % 16 = 0
    IN  IF ~canonical THEN Err("DecodeError")
        ELSE Ok(to_vec([k \in 1..n |->
            LET g == (k - 1) \div 3
                r == (k - 1) % 3
                c0 == sextet(4 * g + 1)
                c1 == sextet(4 * g + 2)
                c2 == sextet(4 * g + 3)
                c3 == sextet(4 * g + 4)
            IN  CASE r = 0 -> c0 * 4 + (c1 \div 16)
                  [] r = 1 -> (c1 % 16) * 16 + (c2 \div 4)
                  [] r = 2 -> (c2 % 4) * 64 + c3]))

\* ------------------------------------------------------------------ state

VARIABLES
    protect,    \* the instance: [backend, key], fixed by from_key
    now,        \* time::precise_time_s() as i64, in seconds
    pairs,      \* the pairs generate_token_pair has returned, as the user agent
                \* holds them (base64 text), oldest first
    drawn,      \* the seeds the random source has given out
    last,       \* the latest step: its operation, inputs and outcome
    stack,      \* the stack frames of the calls in progress: a call's
                \* arguments and local buffers
    callers     \* per caller: where its call is, what it passed in and read,
                \* and what the call returned

vars == <<protect, now, pairs, drawn, last, stack, callers>>

\* the threads that share the instance
Callers == 1..MaxCallers

\* mutant: every call works in the same buffers
Frame_shared(c) == 1

\* Where the call of caller c keeps its arguments and its buffers (`let mut
\* nonce = [0; 12]` and the like): in the frame of the calling thread. The
\* methods take &self, and the structs hold the key and an rng without state.
Frame(c) == c

NoFrame == [op |-> "none"]
NoCall == [pc |-> "idle"]

\* ttl_seconds values a session uses: -1, 1..MaxTtl, i64::MAX
SessionTtls == {I64MinusOne, I64Max} \cup {I64FromNat(n) : n \in 1..MaxTtl}

\* HmacCsrfProtection::from_key and its two siblings
from_key(backend, key) == [backend |-> backend, key |-> key]

Init ==
    /\ protect \in {from_key(b, KeyOf(k)) : b \in Backends, k \in 0..MaxKey}
    /\ now = 0
    /\ pairs = <<>>
    /\ drawn = {}
    /\ last = [op |-> "from_key"]
    /\ stack = [f \in Callers |-> NoFrame]
    /\ callers = [c \in Callers |-> NoCall]

\* a second passes
Tick ==
    /\ now < MaxClock
    /\ now' = now + 1
    /\ last' = [op |-> "tick"]
    /\ UNCHANGED <<protect, pairs, drawn, stack, callers>>

\* protect.generate_token_pair(previous, ttl_seconds); a returned pair goes
\* to the user agent as base64 text (token.b64_string(), cookie.b64_string())
\* and is kept with the secret value the call used. The random source gives
\* each call that draws from it bytes it has not given before: 64 random
\* bytes repeat with negligible probability only.
GenerateTokenPair(previous, ttl_seconds, overflow_checks, rng) ==
    /\ Len(pairs) < MaxPairs
    /\ rng.seed \notin drawn
    /\ LET g == generate_token_pair(protect, previous, ttl_seconds, now, overflow_checks, rng)
       IN  /\ last' = [op |-> "generate_token_pair", previous |-> previous,
                       ttl_seconds |-> ttl_seconds, now |-> now, rng |-> rng,
                       overflow_checks |-> overflow_checks,
                       result |-> g.result, draws |-> g.draws, calls |-> g.calls]
           /\ pairs' = IF g.result.ok
                       THEN Append(pairs, [token |-> b64_string(g.result.v.token),
                                           cookie |-> b64_string(g.result.v.cookie),
                                           secret |-> IF previous.some THEN previous.v
                                                      ELSE random_bytes(rng, 1, SECRET_LEN).v,
                                           previous |-> previous.some,
                                           ttl_seconds |-> ttl_seconds,
                                           now |-> now])
                       ELSE pairs
           /\ drawn' = IF g.draws > 0 THEN drawn \cup {rng.seed} ELSE drawn
    /\ UNCHANGED <<protect, now, stack, callers>>

\* A request presents the token of pair i and the cookie of pair j: decode
\* the base64 text of both, parse both, and verify the parsed pair. A request
\* reads pairs and now and writes last only, so a request that follows
\* another one reaches nothing new: one is taken per change of pairs or now.
Submit(i, j) ==
    /\ last.op # "verify_token_pair"
    /\ LET token == b64_decode(pairs[i].token)
           cookie == b64_decode(pairs[j].cookie)
           t == IF token.ok THEN parse_token(protect, token.v).result ELSE token
           c == IF cookie.ok THEN parse_cookie(protect, cookie.v).result ELSE cookie
       IN  last' = [op |-> "verify_token_pair", i |-> i, j |-> j, now |-> now,
                    token |-> t, cookie |-> c,
                    result |-> IF t.ok /\ c.ok
                               THEN Ok(verify_token_pair(t.v, c.v, now))
                               ELSE Err("not parsed")]
    /\ UNCHANGED <<protect, now, pairs, drawn, stack, callers>>

\* the secret of a pair issued earlier, or none
Previous == {None} \cup {Some(pairs[k].secret) : k \in 1..Len(pairs)}

Next ==
    \/ Tick
    \/ \E previous \in Previous, ttl_seconds \in SessionTtls,
          rng \in [seed : 0..MaxSeed, fail : {{}}] :
            \E overflow_checks \in Builds(now, ttl_seconds) :
                GenerateTokenPair(previous, ttl_seconds, overflow_checks, rng)
    \/ \E i \in 1..Len(pairs), j \in 1..Len(pairs) : Submit(i, j)

Spec == Init /\ [][Next]_vars

\* ------------------------------------------- encoding and parsing alone

\* ttl_seconds values of a direct generate_cookie call: i64::MIN, -1, 0,
\* 1..MaxTtl, i64::MAX
CodecTtls == {I64Min, I64MinusOne, I64Zero, I64Max} \cup {I64FromNat(n) : n \in 1..MaxTtl}

\* the byte lengths of the six encodings
WireLens == {96, 104, 108, 112, 116}

\* the lengths next to an encoding's length, and the empty input
NearLens == {0} \cup {n + d : n \in WireLens, d \in {-1, 0, 1}}

\* bytes cut or zero-extended to n bytes
Resize(bytes, n) == to_vec([i \in 1..n |-> IF i <= Len(bytes) THEN bytes[i] ELSE 0])

\* A generate_* call reads protect and now and writes last only: taken after
\* another call, it reaches the states it reaches when taken first, so the
\* calls are taken from the states construction and the clock leave.
Idle == last.op \in {"from_key", "tick"}

\* protect.generate_token(token_value)
GenerateToken(token_value, rng) ==
    /\ Idle
    /\ LET g == generate_token(protect, token_value, rng, 0)
       IN  last' = [op |-> "generate_token", token_value |-> token_value,
                    now |-> now, rng |-> rng, result |-> g.result, draws |-> g.draws]
    /\ UNCHANGED <<protect, now, pairs, drawn, stack, callers>>

\* protect.generate_cookie(token_value, ttl_seconds)
GenerateCookie(token_value, ttl_seconds, overflow_checks, rng) ==
    /\ Idle
    /\ LET g == generate_cookie(protect, token_value, ttl_seconds, now, overflow_checks, rng, 0)
       IN  last' = [op |-> "generate_cookie", token_value |-> token_value,
                    ttl_seconds |-> ttl_seconds, now |-> now, rng |-> rng,
                    overflow_checks |-> overflow_checks,
                    result |-> g.result, draws |-> g.draws]
    /\ UNCHANGED <<protect, now, pairs, drawn, stack, callers>>

Encoded == last.op \in {"generate_token", "generate_cookie"} /\ last.result.ok

\* parse_token / parse_cookie of input, which was made from the value the
\* call recorded in of returned
ParseAs(of, input, edit) ==
    [op |-> IF of.op = "generate_token" THEN "parse_token" ELSE "parse_cookie",
     of |-> of, edit |-> edit, input |-> input,
     parsed |-> IF of.op = "generate_token" THEN parse_token(protect, input)
                ELSE parse_cookie(protect, input)]

\* protect.parse_token / parse_cookie on the bytes just generated
ParseEncoded ==
    /\ Encoded
    /\ last' = ParseAs(last, last.result.v, "none")
    /\ UNCHANGED <<protect, now, pairs, drawn, stack, callers>>

\* protect.parse_token / parse_cookie on the bytes just generated, cut or
\* zero-extended to n bytes
ParseResized(n) ==
    /\ Encoded
    /\ n # Len(last.result.v)
    /\ last' = ParseAs(last, Resize(last.result.v, n), "resized")
    /\ UNCHANGED <<protect, now, pairs, drawn, stack, callers>>

CodecNext ==
    \/ Tick
    \/ \E token_value \in Secrets, rng \in [seed : 0..MaxSeed, fail : {{}}] :
            GenerateToken(token_value, rng)
    \/ \E token_value \in Secrets, ttl_seconds \in CodecTtls,
          rng \in [seed : 0..MaxSeed, fail : {{}}] :
            \E overflow_checks \in Builds(now, ttl_seconds) :
                GenerateCookie(token_value, ttl_seconds, overflow_checks, rng)
    \/ ParseEncoded
    \/ \E n \in NearLens : ParseResized(n)

SpecCodec == Init /\ [][CodecNext]_vars

\* ------------------------------------------------- input from the network

\* bytes with bit number bit of the byte at offset pos inverted
Flip(bytes, pos, bit) ==
    LET w == <<1, 2, 4, 8, 16, 32, 64, 128>>[bit + 1]
        b == bytes[pos + 1]
    IN  [bytes EXCEPT ![pos + 1] = IF Bit(b, w) = 1 THEN b - w ELSE b + w]

\* the lengths an input is given: empty up to one byte past the longest encoding
InputLens == 0..117

\* one instance per backend, with the key the repository's tests use
WireInit ==
    /\ protect \in {from_key(b, KeyOf(0)) : b \in Backends}
    /\ now = 0
    /\ pairs = <<>>
    /\ drawn = {}
    /\ last = [op |-> "from_key"]
    /\ stack = [f \in Callers |-> NoFrame]
    /\ callers = [c \in Callers |-> NoCall]

\* protect.parse_token / parse_cookie on the bytes just generated with one
\* bit inverted
ParseFlipped(pos, bit) ==
    /\ Encoded
    /\ pos < Len(last.result.v)
    /\ last' = ParseAs(last, Flip(last.result.v, pos, bit), "flipped")
    /\ UNCHANGED <<protect, now, pairs, drawn, stack, callers>>

\* protect.parse_token / parse_cookie on n bytes: the first n of the bytes
\* just generated (zero-extended), or n zero bytes
ParseInput(n, genuine) ==
    /\ Encoded
    /\ genuine => n # Len(last.result.v)
    /\ last' = ParseAs(last, Resize(IF genuine THEN last.result.v ELSE <<>>, n),
                       IF genuine THEN "resized" ELSE "zeros")
    /\ UNCHANGED <<protect, now, pairs, drawn, stack, callers>>

\* the same call a second time, on the bytes the first one was given
ParseAgain ==
    /\ last.op \in {"parse_token", "parse_cookie"}
    /\ last.edit # "again"
    /\ last' = [ParseAs(last.of, last.input, "again") EXCEPT !.of = last]
    /\ UNCHANGED <<protect, now, pairs, drawn, stack, callers>>

WireNext ==
    \/ \E token_value \in Secrets, rng \in [seed : 0..MaxSeed, fail : {{}}] :
            GenerateToken(token_value, rng)
    \/ \E token_value \in Secrets, rng \in [seed : 0..MaxSeed, fail : {{}}] :
            GenerateCookie(token_value, I64FromNat(MaxTtl), FALSE, rng)
    \/ ParseEncoded
    \/ \E pos \in InputLens, bit \in 0..7 : ParseFlipped(pos, bit)
    \/ \E n \in InputLens, genuine \in BOOLEAN : ParseInput(n, genuine)
    \/ ParseAgain

SpecWire == WireInit /\ [][WireNext]_vars

\* ------------------------------------------------------- two instances

\* the instances from_key can build
Instances == {from_key(b, KeyOf(k)) : b \in Backends, k \in 0..MaxKey}

\* issuer.generate_token(token_value), on an instance that may differ from
\* protect
IssueToken(issuer, token_value, rng) ==
    /\ Idle
    /\ LET g == generate_token(issuer, token_value, rng, 0)
       IN  last' = [op |-> "generate_token", by |-> issuer, token_value |-> token_value,
                    now |-> now, rng |-> rng, result |-> g.result, draws |-> g.draws]
    /\ UNCHANGED <<protect, now, pairs, drawn, stack, callers>>

\* issuer.generate_cookie(token_value, ttl_seconds)
IssueCookie(issuer, token_value, ttl_seconds, rng) ==
    /\ Idle
    /\ LET g == generate_cookie(issuer, token_value, ttl_seconds, now, FALSE, rng, 0)
       IN  last' = [op |-> "generate_cookie", by |-> issuer, token_value |-> token_value,
                    ttl_seconds |-> ttl_seconds, now |-> now, rng |-> rng,
                    overflow_checks |-> FALSE,
                    result |-> g.result, draws |-> g.draws]
    /\ UNCHANGED <<protect, now, pairs, drawn, stack, callers>>

\* one instance issues, protect parses what it issued
KeysNext ==
    \/ \E issuer \in Instances, token_value \in Secrets,
          rng \in [seed : 0..MaxSeed, fail : {{}}] :
            IssueToken(issuer, token_value, rng)
    \/ \E issuer \in Instances, token_value \in Secrets,
          rng \in [seed : 0..MaxSeed, fail : {{}}] :
            IssueCookie(issuer, token_value, I64FromNat(MaxTtl), rng)
    \/ ParseEncoded

SpecKeys == Init /\ [][KeysNext]_vars

\* ------------------------------------------- a failing random source

\* The draws of a call that fail: none, one of the five a call can make, or
\* all of them.
Fails == {{}, 1..5} \cup {{k} : k \in 1..5}

\* protect.generate_token_pair(previous, ttl_seconds), with what its two
\* halves returned
CallGenerateTokenPair(previous, ttl_seconds, overflow_checks, rng) ==
    /\ Idle
    /\ LET g == generate_token_pair(protect, previous, ttl_seconds, now, overflow_checks, rng)
       IN  last' = [op |-> "generate_token_pair", previous |-> previous,
                    ttl_seconds |-> ttl_seconds, now |-> now, rng |-> rng,
                    overflow_checks |-> overflow_checks,
                    result |-> g.result, draws |-> g.draws, calls |-> g.calls,
                    token |-> g.token, cookie |-> g.cookie]
    /\ UNCHANGED <<protect, now, pairs, drawn, stack, callers>>

FaultsNext ==
    \/ Tick
    \/ \E token_value \in Secrets, rng \in [seed : 0..MaxSeed, fail : Fails] :
            GenerateToken(token_value, rng)
    \/ \E token_value \in Secrets, ttl_seconds \in CodecTtls,
          rng \in [seed : 0..MaxSeed, fail : Fails] :
            \E overflow_checks \in Builds(now, ttl_seconds) :
                GenerateCookie(token_value, ttl_seconds, overflow_checks, rng)
    \/ \E previous \in {None} \cup {Some(v) : v \in Secrets}, ttl_seconds \in CodecTtls,
          rng \in [seed : 0..MaxSeed, fail : Fails] :
            \E overflow_checks \in Builds(now, ttl_seconds) :
                CallGenerateTokenPair(previous, ttl_seconds, overflow_checks, rng)

SpecFaults == Init /\ [][FaultsNext]_vars

\* --------------------------------------------- several callers, one instance

\* What a call does with the world outside its frame, in the order of the
\* code: reads of the clock and draws from the random source. The encoders
\* of the AEAD backends draw a nonce and a padding; generate_cookie reads
\* the clock before it draws; generate_token_pair draws the secret unless
\* one is given, encodes the token, then the cookie.
Program(self, op, arg) ==
    LET encode == IF self.backend = "hmac" THEN <<>> ELSE <<"draw", "draw">>
    IN  CASE op = "generate_token" -> encode
          [] op = "generate_cookie" -> <<"clock">> \o encode
          [] op = "generate_token_pair" ->
                (IF arg.previous.some THEN <<>> ELSE <<"draw">>)
                    \o encode \o <<"clock">> \o encode
          [] op = "parse_token" -> <<>>
          [] op = "parse_cookie" -> <<>>
          [] op = "verify_token_pair" -> <<"clock">>

\* what the call in frame f returns on instance self
Apply(self, f) ==
    CASE f.op = "generate_token" ->
            generate_token(self, f.arg.token_value, f.arg.rng, 0).result
      [] f.op = "generate_cookie" ->
            generate_cookie(self, f.arg.token_value, f.arg.ttl_seconds, f.clock,
                            FALSE, f.arg.rng, 0).result
      [] f.op = "generate_token_pair" ->
            generate_token_pair(self, f.arg.previous, f.arg.ttl_seconds, f.clock,
                                FALSE, f.arg.rng).result
      [] f.op = "parse_token" -> parse_token(self, f.arg.bytes).result
      [] f.op = "parse_cookie" -> parse_cookie(self, f.arg.bytes).result
      [] f.op = "verify_token_pair" ->
            Ok(verify_token_pair(f.arg.token, f.arg.cookie, f.clock))

\* the calls a caller makes on instance self
Calls(self) ==
    LET secret == RandomFill(0, 1, SECRET_LEN)
        other == RandomFill(1, 1, SECRET_LEN)
        quiet == [seed |-> 0, fail |-> {}]
        ttl == I64FromNat(MaxTtl)
        rngs == [seed : 0..MaxSeed, fail : {{}}]
    IN  {[op |-> "generate_token", arg |-> [token_value |-> secret, rng |-> r]] : r \in rngs}
        \cup {[op |-> "generate_cookie",
               arg |-> [token_value |-> secret, ttl_seconds |-> ttl, rng |-> r]] : r \in rngs}
        \cup {[op |-> "generate_token_pair",
               arg |-> [previous |-> pr, ttl_seconds |-> ttl, rng |-> r]] :
                    pr \in {None, Some(secret)}, r \in rngs}
        \cup {[op |-> "parse_token",
               arg |-> [bytes |-> generate_token(self, secret, quiet, 0).result.v]]}
        \cup {[op |-> "parse_cookie",
               arg |-> [bytes |-> generate_cookie(self, secret, ttl, 0, FALSE, quiet, 0).result.v]]}
        \cup {[op |-> "verify_token_pair",
               arg |-> [token |-> UnencryptedCsrfToken(secret),
                        cookie |-> UnencryptedCsrfCookie(I64FromNat(MaxClock), v)]] :
                    v \in {secret, other}}

Running(c) == callers[c].pc = "running"

\* caller c calls a method: its arguments go into its frame
Enter(c, call) ==
    /\ callers[c].pc = "idle"
    /\ stack' = [stack EXCEPT ![Frame(c)] =
                    [op |-> call.op, arg |-> call.arg, clock |-> -1, step |-> 0]]
    /\ callers' = [callers EXCEPT ![c] =
                    [pc |-> "running", self |-> protect, op |-> call.op, arg |-> call.arg,
                     clock |-> -1, result |-> Err("running")]]
    /\ UNCHANGED <<protect, now, pairs, drawn, last>>

\* the call of caller c reads the clock: time::precise_time_s() as i64
ReadClock(c) ==
    /\ Running(c)
    /\ LET f == stack[Frame(c)]
           program == Program(protect, f.op, f.arg)
       IN  /\ f.step < Len(program)
           /\ program[f.step + 1] = "clock"
           /\ stack' = [stack EXCEPT ![Frame(c)] = [f EXCEPT !.clock = now, !.step = f.step + 1]]
    /\ callers' = [callers EXCEPT ![c].clock = now]
    /\ UNCHANGED <<protect, now, pairs, drawn, last>>

\* the call of caller c fills one of its buffers from the random source
Draw(c) ==
    /\ Running(c)
    /\ LET f == stack[Frame(c)]
           program == Program(protect, f.op, f.arg)
       IN  /\ f.step < Len(program)
           /\ program[f.step + 1] = "draw"
           /\ stack' = [stack EXCEPT ![Frame(c)] = [f EXCEPT !.step = f.step + 1]]
    /\ UNCHANGED <<protect, now, pairs, drawn, last, callers>>

\* the call of caller c computes its result from its frame and returns it
Return(c) ==
    /\ Running(c)
    /\ LET f == stack[Frame(c)]
       IN  /\ f.step = Len(Program(protect, f.op, f.arg))
           /\ callers' = [callers EXCEPT ![c].pc = "returned",
                                         ![c].result = Apply(protect, f)]
    /\ UNCHANGED <<protect, now, pairs, drawn, last, stack>>

ThreadsNext ==
    \/ Tick
    \/ \E c \in Callers : \E call \in Calls(protect) : Enter(c, call)
    \/ \E c \in Callers : ReadClock(c)
    \/ \E c \in Callers : Draw(c)
    \/ \E c \in Callers : Return(c)

SpecThreads == WireInit /\ [][ThreadsNext]_vars

\* ----------------------------------------------- one pair as time passes

\* ttl_seconds of the cookies followed to their expiry: -1, 0, 1..MaxClock
TimeTtls == {I64MinusOne, I64Zero} \cup {I64FromNat(n) : n \in 1..MaxClock}

\* The clock of the model stops at MaxClock: a cookie is followed when its
\* expiry is a time the clock reaches.
WithinHorizon(ttl_seconds) ==
    ~I64Gt(WrappingAdd(I64FromNat(now), ttl_seconds), I64FromNat(MaxClock))

\* generate_token_pair(None, ttl_seconds), decoded: the token and the cookie
\* of the pair that is followed
FirstIssue(ttl_seconds, rng) ==
    /\ pairs = <<>>
    /\ WithinHorizon(ttl_seconds)
    /\ LET g == generate_token_pair(protect, None, ttl_seconds, now, FALSE, rng).result
       IN  pairs' = <<[token |-> parse_token(protect, g.v.token).result.v,
                       cookie |-> parse_cookie(protect, g.v.cookie).result.v]>>
    /\ UNCHANGED <<protect, now, drawn, last, stack, callers>>

\* generate_token_pair(Some(secret), ttl_seconds): a new cookie for the token
\* that is out
Reissue(ttl_seconds, rng) ==
    /\ pairs # <<>>
    /\ WithinHorizon(ttl_seconds)
    /\ LET g == generate_token_pair(protect, Some(pairs[1].token.token), ttl_seconds,
                                    now, FALSE, rng).result
       IN  pairs' = <<[token |-> pairs[1].token,
                       cookie |-> parse_cookie(protect, g.v.cookie).result.v]>>
    /\ UNCHANGED <<protect, now, drawn, last, stack, callers>>

\* verify_token_pair on the decoded token and cookie
Verify ==
    /\ pairs # <<>>
    /\ last' = [op |-> "verify_token_pair", now |-> now,
                token |-> pairs[1].token, cookie |-> pairs[1].cookie,
                result |-> verify_token_pair(pairs[1].token, pairs[1].cookie, now)]
    /\ UNCHANGED <<protect, now, pairs, drawn, stack, callers>>

\* a second passes; the verdicts given stay as they are
Pass ==
    /\ now < MaxClock
    /\ now' = now + 1
    /\ UNCHANGED <<protect, pairs, drawn, last, stack, callers>>

TimeNext ==
    \/ Pass
    \/ \E ttl_seconds \in TimeTtls, rng \in [seed : 0..MaxSeed, fail : {{}}] :
            FirstIssue(ttl_seconds, rng)
    \/ \E ttl_seconds \in TimeTtls, rng \in [seed : 0..MaxSeed, fail : {{}}] :
            Reissue(ttl_seconds, rng)
    \/ Verify

\* time does not stop
SpecTime == Init /\ [][TimeNext]_vars /\ WF_vars(Pass)

\* ------------------------------------------------------ Display of errors

\* Error::description
description(e) ==
    CASE e = InternalError -> "CSRF library error"
      [] e = ValidationFailure -> "CSRF validation failed"

\* format!("{}", e): <CsrfError as Display>::fmt(&e, f) is called
Format(e) ==
    /\ last.op = "from_key"
    /\ last' = [op |-> "fmt", error |-> e, depth |-> 1, written |-> "", pc |-> "write"]
    /\ UNCHANGED <<protect, now, pairs, drawn, stack, callers>>

\* The body of fmt, `write!(f, "{}", self)`, formats its argument self with
\* Display: it calls the same fmt one frame deeper, before anything is
\* written. No call gets past this line, so none returns.
FmtCallsFmt ==
    /\ last.op = "fmt" /\ last.pc = "write"
    /\ last.depth < MaxStack
    /\ last' = [last EXCEPT !.depth = last.depth + 1]
    /\ UNCHANGED <<protect, now, pairs, drawn, stack, callers>>

\* no frame is left for the next call: the thread overflows its stack and
\* the process is aborted
StackOverflow ==
    /\ last.op = "fmt" /\ last.pc = "write"
    /\ last.depth = MaxStack
    /\ last' = [last EXCEPT !.pc = "stack overflow"]
    /\ UNCHANGED <<protect, now, pairs, drawn, stack, callers>>

DisplayNext ==
    \/ \E e \in {InternalError, ValidationFailure} : Format(e)
    \/ FmtCallsFmt
    \/ StackOverflow

SpecDisplay == Init /\ [][DisplayNext]_vars

\* --------------------------------------------------------------- claims

\* n < expires as integers, for a clock reading n below 2^16
ClockBefore(n, expires) ==
    /\ ~I64IsNeg(expires)
    /\ (expires[4] > 0 \/ expires[3] > 0 \/ expires[2] > 0 \/ expires[1] > n)

\* ttl_seconds > 0
Positive(ttl_seconds) == ~I64IsNeg(ttl_seconds) /\ ttl_seconds # I64Zero

Verified == last.op = "verify_token_pair"

\* C1: the token and the cookie of one generate_token_pair(None, ttl) call
\* with ttl > 0, base64-encoded and decoded again, both parse, and
\* verify_token_pair on the parsed values is true while the clock has not
\* reached the cookie's expiry.
C1_IssuedPairVerifies ==
    (Verified /\ last.i = last.j /\ ~pairs[last.i].previous
        /\ Positive(pairs[last.i].ttl_seconds))
    => /\ last.token.ok
       /\ last.cookie.ok
       /\ ClockBefore(last.now, last.cookie.v.expires) => last.result = Ok(TRUE)

C1_Witness ==
    /\ Verified /\ last.i = last.j /\ ~pairs[last.i].previous
    /\ Positive(pairs[last.i].ttl_seconds)
    /\ last.now > pairs[last.i].now
    /\ last.result = Ok(TRUE)

\* C2: verify_token_pair returns a boolean, true exactly when the token's
\* secret equals the cookie's secret and cookie.expires > now.
C2_VerifyIffMatchAndFresh ==
    (Verified /\ last.token.ok /\ last.cookie.ok)
    => /\ last.result.ok
       /\ last.result.v \in BOOLEAN
       /\ last.result.v <=> (/\ last.token.v.token = last.cookie.v.token
                             /\ ClockBefore(last.now, last.cookie.v.expires))

\* equal secrets and expires == now: rejected
C2_Witness ==
    /\ Verified /\ last.token.ok /\ last.cookie.ok
    /\ last.token.v.token = last.cookie.v.token
    /\ last.cookie.v.expires = I64FromNat(last.now)
    /\ last.result = Ok(FALSE)

\* a parse_* call on exactly the bytes a generate_* call returned
ParsedEncoded(op) == last.op = op /\ last.edit = "none"

\* C3: parse_token on the bytes generate_token(secret) returned succeeds and
\* returns exactly that secret, for every backend, key, secret, nonce and
\* padding.
C3_TokenRoundTrip ==
    /\ (last.op = "generate_token") => last.result.ok
    /\ ParsedEncoded("parse_token")
       => last.parsed.result = Ok(UnencryptedCsrfToken(last.of.token_value))

\* an encrypted token, made with a drawn nonce and padding, gave its secret back
C3_Witness ==
    /\ ParsedEncoded("parse_token")
    /\ protect.backend # "hmac"
    /\ last.of.draws = 2
    /\ Slice(last.input, 16, SECRET_LEN) # last.of.token_value
    /\ last.parsed.result.ok
    /\ last.parsed.result.v.token = last.of.token_value

\* C4: for every ttl_seconds >= 0, generate_cookie(secret, ttl_seconds)
\* returns bytes on which parse_cookie succeeds with that secret and with
\* expires equal to the clock value read at issuance plus ttl_seconds.
C4_CookieRoundTrip ==
    /\ (last.op = "generate_cookie" /\ ~I64IsNeg(last.ttl_seconds)) => last.result.ok
    /\ (ParsedEncoded("parse_cookie") /\ ~I64IsNeg(last.of.ttl_seconds))
       => /\ last.parsed.result.ok
          /\ last.parsed.result.v.token = last.of.token_value
          /\ ~AddOverflows(I64FromNat(last.of.now), last.of.ttl_seconds)
          /\ last.parsed.result.v.expires
                = WrappingAdd(I64FromNat(last.of.now), last.of.ttl_seconds)

Parsing == last.op \in {"parse_token", "parse_cookie"}

\* the offsets at which input differs from the bytes it was made from
Changed == {p \in 0..(Len(last.input) - 1) : last.input[p + 1] # last.of.result.v[p + 1]}

\* C5: an encoded token or cookie with any single bit inverted, in the
\* payload or ciphertext, the expiry, the nonce or the MAC or tag, is
\* rejected by parse_token / parse_cookie with ValidationFailure.
C5_FlippedBitRejected ==
    (Parsing /\ last.edit = "flipped")
    => /\ Cardinality(Changed) = 1
       /\ last.parsed.result = Err(ValidationFailure)

\* one bit of the nonce of an encrypted cookie inverted: rejected by the
\* integrity check
C5_Witness ==
    /\ last.op = "parse_cookie" /\ last.edit = "flipped"
    /\ protect.backend = "aesgcm"
    /\ Changed = {88}
    /\ last.parsed = RejectedOnIntegrity

\* C6 as stated: the token of one generate_token_pair call and the cookie of
\* another both parse, and verify_token_pair on them is false.
C6_AnyTwoCallsFail ==
    (Verified /\ last.i # last.j)
    => /\ last.token.ok
       /\ last.cookie.ok
       /\ last.result = Ok(FALSE)

\* C6 amended: the token of one call and the cookie of another both parse,
\* and verify_token_pair on them is false when the two calls used different
\* secrets.
C6_DifferentSecretsFail ==
    (Verified /\ last.i # last.j)
    => /\ last.token.ok
       /\ last.cookie.ok
       /\ pairs[last.i].secret # pairs[last.j].secret => last.result = Ok(FALSE)

\* two calls, different secrets, an unexpired cookie: parsed and rejected
C6_Witness ==
    /\ Verified /\ last.i # last.j
    /\ pairs[last.i].secret # pairs[last.j].secret
    /\ last.token.ok /\ last.cookie.ok
    /\ ClockBefore(last.now, last.cookie.v.expires)
    /\ last.result = Ok(FALSE)

\* the random_bytes calls of one generate_token_pair call that encodes a
\* token and a cookie: per backend, and one more for a fresh secret
EncodeDraws == IF protect.backend = "hmac" THEN 0 ELSE 4

\* C7: generate_token_pair(Some(previous), ttl) draws no secret, and its token
\* and cookie decode to previous; with None one secret is drawn and both
\* decode to it; a token of an earlier call with the same secret verifies
\* against the new cookie while that cookie is unexpired.
C7_SecretReuse ==
    /\ (last.op = "generate_token_pair" /\ last.result.ok)
       => LET t == parse_token(protect, last.result.v.token).result
              c == parse_cookie(protect, last.result.v.cookie).result
              secret == IF last.previous.some THEN last.previous.v
                        ELSE RandomFill(last.rng.seed, 1, SECRET_LEN)
          IN  /\ last.draws = EncodeDraws + (IF last.previous.some THEN 0 ELSE 1)
              /\ t.ok /\ t.v.token = secret
              /\ c.ok /\ c.v.token = secret
    /\ (Verified /\ last.i < last.j /\ pairs[last.j].previous
            /\ pairs[last.j].secret = pairs[last.i].secret
            /\ last.cookie.ok /\ ClockBefore(last.now, last.cookie.v.expires))
       => last.result = Ok(TRUE)

\* an earlier token verified against the cookie of a later call that reused
\* its secret
C7_Witness ==
    /\ Verified /\ last.i < last.j /\ pairs[last.j].previous
    /\ pairs[last.j].secret = pairs[last.i].secret
    /\ pairs[last.j].now > pairs[last.i].now
    /\ last.result = Ok(TRUE)

\* C8: a pair issued with a negative ttl_seconds decodes, and
\* verify_token_pair on it is false at issuance and at every later time.
C8_NegativeTtlNeverVerifies ==
    (Verified /\ I64IsNeg(pairs[last.j].ttl_seconds))
    => /\ last.cookie.ok
       /\ last.i = last.j => (last.token.ok /\ last.result = Ok(FALSE))
       /\ last.token.ok => last.result = Ok(FALSE)

\* issued with ttl_seconds = -1, decoded and rejected in the same second
C8_Witness ==
    /\ Verified /\ last.i = last.j
    /\ pairs[last.j].ttl_seconds = I64MinusOne
    /\ last.now = pairs[last.j].now
    /\ last.token.ok /\ last.cookie.ok
    /\ last.result = Ok(FALSE)

\* later than issuance
C8_WitnessLater ==
    /\ Verified /\ last.i = last.j
    /\ I64IsNeg(pairs[last.j].ttl_seconds)
    /\ last.now > pairs[last.j].now
    /\ last.result = Ok(FALSE)

\* the byte length of what op returns on backend
EncodedLen(backend, op) ==
    CASE backend = "hmac" -> IF op = "generate_token" THEN 96 ELSE 104
      [] backend = "aesgcm" -> IF op = "generate_token" THEN 108 ELSE 116
      [] backend = "chacha" -> IF op = "generate_token" THEN 104 ELSE 112

\* C9: a generated token is 96 (HMAC), 108 (AES-GCM) or 104
\* (ChaCha20-Poly1305) bytes long and a generated cookie 104, 116 or 112,
\* for every key, secret and ttl; parse_token / parse_cookie accepts only
\* input of its backend's token / cookie length.
C9_EncodedLengths ==
    /\ Encoded => Len(last.result.v) = EncodedLen(protect.backend, last.op)
    /\ (Parsing /\ last.parsed.result.ok)
       => Len(last.input) = EncodedLen(protect.backend, last.of.op)

\* a ChaCha20-Poly1305 cookie extended to the length of an AES-GCM cookie:
\* rejected
C9_Witness ==
    /\ last.op = "parse_cookie" /\ last.edit = "resized"
    /\ protect.backend = "chacha"
    /\ Len(last.of.result.v) = 112
    /\ Len(last.input) = 116
    /\ ~last.parsed.result.ok

\* the length parse_token / parse_cookie of this call requires
OwnLen == EncodedLen(protect.backend,
                     IF last.op = "parse_token" THEN "generate_token" ELSE "generate_cookie")

\* C10: parse_token / parse_cookie on any bytes checks the length first and
\* rejects a wrong length with ValidationFailure before any MAC or AEAD
\* computation; a right length reaches the integrity check, whose failure is
\* ValidationFailure too; a value is built only after both checks. The
\* outcome is Ok or ValidationFailure, and the same bytes parsed again have
\* the same outcome.
C10_ParsePipeline ==
    Parsing
    => /\ Len(last.input) # OwnLen => last.parsed = RejectedOnLength
       /\ Len(last.input) = OwnLen
          => \/ last.parsed = RejectedOnIntegrity
             \/ /\ last.parsed.result.ok
                /\ last.parsed = Accepted(last.parsed.result.v)
       /\ last.parsed.result.ok \/ last.parsed.result = Err(ValidationFailure)
       /\ last.edit = "again" => last.parsed = last.of.parsed

\* a token cut by one byte, parsed twice: rejected on its length both times,
\* with no MAC or AEAD computation
C10_Witness ==
    /\ last.op = "parse_token" /\ last.edit = "again"
    /\ last.of.edit = "resized"
    /\ Len(last.input) = OwnLen - 1
    /\ last.of.parsed = RejectedOnLength
    /\ last.parsed = RejectedOnLength
    /\ last.parsed.crypto = 0

\* C11: a token or cookie parses on an instance only if an instance of the
\* same backend with the same key produced it; what an instance with another
\* key or another backend produced is rejected with ValidationFailure.
C11_KeyBinding ==
    (Parsing /\ last.edit = "none")
    => /\ last.parsed.result.ok => last.of.by = protect
       /\ last.of.by # protect => last.parsed.result = Err(ValidationFailure)
       /\ last.of.by = protect => last.parsed.result.ok

\* same backend, another key: the right length, and rejected by the
\* integrity check
C11_Witness ==
    /\ Parsing /\ last.edit = "none"
    /\ last.of.by.backend = protect.backend
    /\ last.of.by.key # protect.key
    /\ last.parsed = RejectedOnIntegrity

\* a generate_token_pair call whose two halves returned
PairReturned ==
    /\ last.op = "generate_token_pair" /\ last.calls = 2
    /\ ~IsErr(last.cookie, Panic)

\* C12: when generate_token or generate_cookie returns an error, whichever
\* of the two and whatever the error, generate_token_pair returns
\* ValidationFailure and no pair; it returns InternalError only when
\* previous is None and the draw of the secret fails, and then it calls
\* neither generate_token nor generate_cookie.
C12_PairErrorKind ==
    /\ PairReturned
       => /\ (~last.token.ok \/ ~last.cookie.ok) => last.result = Err(ValidationFailure)
          /\ (last.token.ok /\ last.cookie.ok) => last.result.ok
    /\ last.op = "generate_token_pair"
       => /\ last.result = Err(InternalError)
             <=> (~last.previous.some /\ 1 \in last.rng.fail)
          /\ last.result = Err(InternalError)
             => (last.calls = 0 /\ last.draws = 1)

\* generate_token returned InternalError from the random source, the cookie
\* was encoded, and the pair call returned ValidationFailure
C12_Witness ==
    /\ PairReturned
    /\ last.token = Err(InternalError)
    /\ last.cookie.ok
    /\ last.result = Err(ValidationFailure)

\* a failing draw among the two an AEAD backend makes per encode
DrawFails == protect.backend # "hmac" /\ (1 \in last.rng.fail \/ 2 \in last.rng.fail)

\* C13: for every secret and every ttl_seconds, negative ones included,
\* generate_token and generate_cookie return Ok unless a random_bytes call
\* fails, and then InternalError; the AEAD backends draw a nonce and 16
\* bytes of padding and fail when either draw fails, the HMAC backend draws
\* nothing and always returns Ok.
C13_FailsOnlyOnRandomSource ==
    (last.op \in {"generate_token", "generate_cookie"})
    => /\ last.result.ok <=> ~DrawFails
       /\ ~last.result.ok => last.result = Err(InternalError)
       /\ last.result.ok => last.draws = (IF protect.backend = "hmac" THEN 0 ELSE 2)

\* the call of caller c, run alone with what c passed in and the clock
\* reading c's call made
Alone(c) ==
    Apply(callers[c].self,
          [op |-> callers[c].op, arg |-> callers[c].arg, clock |-> callers[c].clock])

Fresh ==
    /\ last.op = "verify_token_pair"
    /\ last.now = now
    /\ last.token = pairs[1].token /\ last.cookie = pairs[1].cookie

\* a false verdict is followed by false verdicts on the same token and cookie
OnceFalseStaysFalse ==
    (/\ last.op = "verify_token_pair" /\ ~last.result
     /\ last'.op = "verify_token_pair"
     /\ last'.token = last.token /\ last'.cookie = last.cookie)
    => (last'.now >= last.now /\ ~last'.result)

\* the clock has reached the expiry of the cookie that is out, and a verdict
\* given now is false
Expired ==
    /\ pairs # <<>> => ~ClockBefore(now, pairs[1].cookie.expires)
    /\ (pairs # <<>> /\ Fresh) => ~last.result

\* C15: with a clock that does not go back, once verify_token_pair is false
\* for a decoded token and cookie it is false at every later time (so a pair
\* that verifies at t verifies at every earlier time); the clock reaches the
\* cookie's expiry, and from then on verification fails forever; the token
\* verifies again only against a newly issued cookie.
C15_MonotoneInTime ==
    /\ [][OnceFalseStaysFalse]_vars
    /\ [](Fresh => (last.result <=> (/\ last.token.token = last.cookie.token
                                     /\ ClockBefore(now, last.cookie.expires))))
    /\ <>[]Expired

\* a cookie that verified has reached its expiry: the verdict is false
C15_Witness ==
    /\ pairs # <<>> /\ Fresh
    /\ last.token.token = last.cookie.token
    /\ last.cookie.expires = I64FromNat(now)
    /\ now > 0
    /\ ~last.result

\* C16: formatting a CsrfError with Display terminates and writes a message,
\* for InternalError and for ValidationFailure: a formatting that takes no
\* further step has returned to its caller with a message written.
C16_DisplayTerminates ==
    (last.op = "fmt" /\ last.pc # "write")
    => /\ last.pc = "returned"
       /\ last.depth = 0
       /\ last.written = description(last.error)

====
